---------------------------- MODULE Spec2Model ----------------------------
(***************************************************************************)
(* Model of src/market_engine.js (the MarketEngine object): per-instrument *)
(* state, trade impact, session drift with exponential decay, the periodic *)
(* tick and the interval timer that drives it.                             *)
(*                                                                         *)
(* Numbers.  The engine computes in IEEE-754 doubles.  Finite values are   *)
(* modelled in fixed point, truncated toward zero:                         *)
(*   prices (price, high, low, openPrice, priceHistory, resultingPrice)    *)
(*     in units of 1/PriceScale rupee;                                     *)
(*   relative changes (impact, flow, drift, noise, decay factor)           *)
(*     in units of 1/PctScale;                                             *)
(*   trade values, liquidity and net flow in whole rupees.                 *)
(* The non-finite doubles are kept: PosInf, NegInf and NaN are values of   *)
(* the model and every arithmetic operator below follows the IEEE rules    *)
(* for them (Infinity - Infinity = NaN, comparisons with NaN are false,    *)
(* Math.min/Math.max return NaN when an argument is NaN).  Big stands for  *)
(* a finite double so large (1e200) that Big * Big overflows to Infinity.  *)
(* Equality of two values of the model is identity of the doubles: a NaN   *)
(* stored in two places is one value, though NaN === NaN is false in the   *)
(* engine's language; the comparisons the engine makes go through FLe/FLt. *)
(*                                                                         *)
(* Calls.  The engine is a single-threaded JavaScript object: every method *)
(* and the interval's callback run from an empty call stack to their       *)
(* return.  Spec, SpecTrading, SpecLong, SpecApi and SpecFlow take each    *)
(* call as one step; SpecInterleave takes tick statement by statement.     *)
(***************************************************************************)
EXTENDS Integers, Sequences, FiniteSets, TLC

(***************************************************************************)
(* IEEE-754 special values and fixed-point scales                          *)
(***************************************************************************)
NaN == 2147483647
PosInf == 2147483646
NegInf == -2147483646
Big == 2147483645

MaxInt == Big - 1

PctScale == 10^9
PriceScale == 10^4

IsNaN(x) == x = NaN
IsInf(x) == x = PosInf \/ x = NegInf

Abs(x) == IF x < 0 THEN -x ELSE x
Sign(x) == IF x < 0 THEN -1 ELSE IF x > 0 THEN 1 ELSE 0

\* <<q, r>> with a * b = q * d + r and 0 <= r < d, for a, b >= 0 and
\* 0 < d <= 10^9, computed without leaving the 32-bit range by doubling.
RECURSIVE MulDivQR(_, _, _)
MulDivQR(a, b, d) ==
    IF b = 0 THEN <<0, 0>>
    ELSE LET h == MulDivQR(a, b \div 2, d)
             q2 == 2 * h[1] + (2 * h[2]) \div d
             r2 == (2 * h[2]) % d
         IN  IF b % 2 = 0 THEN <<q2, r2>>
             ELSE <<q2 + (a \div d) + ((r2 + (a % d)) \div d), (r2 + (a % d)) % d>>

\* trunc(a * b / d) for finite a, b of either sign and d > 0
MulDiv(a, b, d) ==
    LET x == Abs(a)
        y == Abs(b)
        s == Sign(a) * Sign(b)
    IN  IF x = 0 \/ y = 0 THEN 0
        ELSE IF x <= MaxInt \div y THEN s * ((x * y) \div d)
        ELSE IF x <= y THEN s * MulDivQR(y, x, d)[1]
        ELSE s * MulDivQR(x, y, d)[1]

\* floor(sqrt(n)) for finite n >= 0, by bisection
RECURSIVE IsqrtBetween(_, _, _)
IsqrtBetween(n, lo, hi) ==
    IF lo >= hi THEN lo
    ELSE LET mid == (lo + hi + 1) \div 2
         IN  IF mid * mid <= n THEN IsqrtBetween(n, mid, hi)
             ELSE IsqrtBetween(n, lo, mid - 1)

Isqrt(n) == IsqrtBetween(n, 0, 46340)

\* x + y on doubles
FAdd(x, y) ==
    IF IsNaN(x) \/ IsNaN(y) THEN NaN
    ELSE IF IsInf(x) /\ IsInf(y) THEN (IF x = y THEN x ELSE NaN)
    ELSE IF IsInf(x) THEN x
    ELSE IF IsInf(y) THEN y
    ELSE x + y

\* Math.max(x, y) and Math.min(x, y): NaN when an argument is NaN
FMax(x, y) == IF IsNaN(x) \/ IsNaN(y) THEN NaN ELSE IF x >= y THEN x ELSE y
FMin(x, y) == IF IsNaN(x) \/ IsNaN(y) THEN NaN ELSE IF x <= y THEN x ELSE y

\* x <= y and x < y on doubles: false when an operand is NaN
FLe(x, y) == ~IsNaN(x) /\ ~IsNaN(y) /\ x <= y
FLt(x, y) == ~IsNaN(x) /\ ~IsNaN(y) /\ x < y

\* Math.max(-c, Math.min(c, x))
Clamp(c, x) == FMax(-c, FMin(c, x))

\* p * (1 + change) for a price p and a relative change in 1/PctScale
ApplyChange(p, change) ==
    IF IsNaN(p) \/ IsNaN(change) THEN NaN
    ELSE MulDiv(p, PctScale + change, PctScale)


(***************************************************************************)
(* Configuration tables (src/market_engine.js lines 6-53)                  *)
(***************************************************************************)
\* stockConfig, all eight instruments: startPrice in 1/PriceScale rupee,
\* dailyVolume in shares, K in 1/100
stockTable ==
    [ADANIPORTS |-> [startPrice |-> 850 * PriceScale, dailyVolume |-> 2500000, K |-> 105],
     LT |-> [startPrice |-> 3400 * PriceScale, dailyVolume |-> 3200000, K |-> 100],
     JSWSTEEL |-> [startPrice |-> 820 * PriceScale, dailyVolume |-> 8500000, K |-> 85],
     ONGC |-> [startPrice |-> 260 * PriceScale, dailyVolume |-> 12800000, K |-> 75],
     TCS |-> [startPrice |-> 4100 * PriceScale, dailyVolume |-> 1800000, K |-> 115],
     TITAN |-> [startPrice |-> 3600 * PriceScale, dailyVolume |-> 2800000, K |-> 105],
     CEATLTD |-> [startPrice |-> 2800 * PriceScale, dailyVolume |-> 680000, K |-> 160],
     SBIN |-> [startPrice |-> 720 * PriceScale, dailyVolume |-> 18500000, K |-> 70]]

\* The instruments the model carries: the engine treats every instrument
\* alike and independently, so two of the eight rows are kept.
Symbols == {"TCS", "ONGC"}

stockConfig == [s \in Symbols |-> stockTable[s]]

\* Object.entries(this.state), Object.entries(this.stockConfig): the
\* instruments in the order of the table
entries == <<"ONGC", "TCS">>

\* newsSentiment[session][symbol]
newsSentiment ==
    1 :> [ADANIPORTS |-> "Mixed", LT |-> "Mixed", TITAN |-> "Mixed",
          JSWSTEEL |-> "Negative Lean", ONGC |-> "Mixed",
          TCS |-> "Positive Lean", CEATLTD |-> "Negative", SBIN |-> "Positive Lean"]
    @@
    2 :> [ADANIPORTS |-> "Negative", LT |-> "Mixed", TITAN |-> "Positive Lean",
          JSWSTEEL |-> "Negative Lean", ONGC |-> "Negative Lean",
          TCS |-> "Negative", CEATLTD |-> "Mixed", SBIN |-> "Negative"]
    @@
    3 :> [ADANIPORTS |-> "Negative Lean", LT |-> "Negative", TITAN |-> "Negative",
          JSWSTEEL |-> "Positive Lean", ONGC |-> "Negative Lean",
          TCS |-> "Negative", CEATLTD |-> "Mixed", SBIN |-> "Positive Lean"]

\* driftTargets[session][sentiment], in 1/PctScale
driftTargets ==
    1 :> ("Positive Lean" :> 9000000 @@ "Mixed" :> 2000000 @@
          "Negative Lean" :> -7000000 @@ "Negative" :> -13000000)
    @@
    2 :> ("Positive Lean" :> 13000000 @@ "Mixed" :> 1000000 @@
          "Negative Lean" :> -11000000 @@ "Negative" :> -18000000)
    @@
    3 :> ("Positive Lean" :> 16000000 @@ "Mixed" :> 0 @@
          "Negative Lean" :> -14000000 @@ "Negative" :> -22000000)

\* params: fractions in 1/PctScale, sessionWeights in 1/100
depthFactor == 20000000
perTradeImpactClamp == 25000000
flowDivisor == 50
maxFlowPct == 2000000
noiseRangePct == 200000
driftWindowSeconds == 3600
driftHalfLife == 1200
sessionWeights == 1 :> 15 @@ 2 :> 35 @@ 3 :> 50

\* Math.log(2) in 1/PctScale
LN2 == 693147181

\* capacities of the two bounded buffers (lines 129, 133)
MaxLastTrades == 10
MaxPriceHistory == 100

(***************************************************************************)
(* State                                                                   *)
(***************************************************************************)
VARIABLES
    state,              \* symbol -> stock record              (line 56)
    activeSessions,     \* sequence of session numbers         (line 59)
    sessionStartTimes,  \* session number -> Date.now() value  (line 62)
    tickInterval,       \* handle of the interval, or Null     (line 65)
    liveTimers,         \* the host's intervals that still fire
    now,                \* the host clock, ms (Date.now(), new Date())
    last,               \* the last call: its arguments, what it returned, threw
                        \* and logged, the terms it computed (for reset: what
                        \* there was to clear)
    steps,              \* calls made so far (bounds the exploration)
    running,            \* the position of the tick callback on the call stack
    accepted            \* history: symbol -> the trades addTransaction has
                        \* accepted since the last init() or reset(), oldest first

vars == <<state, activeSessions, sessionStartTimes, tickInterval, liveTimers,
          now, last, steps, running, accepted>>

\* tickInterval: null
Null == 0

\* no callback is on the call stack
Idle == [pc |-> "idle"]

(***************************************************************************)
(* Double arithmetic of the engine's formulas                              *)
(***************************************************************************)
\* x / y for doubles x, y: the quotient in units of 1/scale
FDiv(x, y, scale) ==
    IF IsNaN(x) \/ IsNaN(y) THEN NaN
    ELSE IF IsInf(x) /\ IsInf(y) THEN NaN
    ELSE IF IsInf(x) THEN (IF (x > 0) = (y >= 0) THEN PosInf ELSE NegInf)
    ELSE IF IsInf(y) THEN 0
    ELSE IF y = 0 THEN (IF x = 0 THEN NaN ELSE IF x > 0 THEN PosInf ELSE NegInf)
    ELSE Sign(y) * MulDiv(x, scale, Abs(y))

\* qty * tradePrice in rupees (line 99); Big * Big overflows to Infinity
tradeValueOf(qty, tradePrice) ==
    IF qty = Big /\ tradePrice = Big THEN PosInf ELSE qty * tradePrice

\* direction * x for direction in {1, -1}
FSigned(direction, x) ==
    IF IsNaN(x) THEN NaN
    ELSE IF IsInf(x) THEN (IF direction = 1 THEN x ELSE -x)
    ELSE direction * x

\* (config.dailyVolume * price) * depthFactor in rupees (lines 103, 192);
\* the exact product dailyVolume * depthFactor is taken first to stay in range
liquidityValueOf(config, price) ==
    IF IsNaN(price) THEN NaN
    ELSE MulDiv(MulDiv(config.dailyVolume, depthFactor, PctScale), price, PriceScale)

\* direction * K * Math.sqrt(tradeValue / liquidityValue) in 1/PctScale (line 106):
\* the ratio in 1/10^8, its root in 1/10^4, K in 1/100
impactPctOf(direction, config, tradeValue, liquidityValue) ==
    LET ratio == FDiv(tradeValue, liquidityValue, 10^8)
        root == IF IsNaN(ratio) \/ IsInf(ratio) THEN ratio ELSE Isqrt(ratio)
    IN  IF IsNaN(root) THEN NaN
        ELSE IF IsInf(root) THEN FSigned(direction, root)
        ELSE direction * config.K * root * (PctScale \div 10^6)

\* the clamp of lines 107-108
clampedImpactOf(impactPct) == Clamp(perTradeImpactClamp, impactPct)

\* stock.volumeTraded += qty (line 118): adding to 1e200 leaves 1e200-like Big
volumeAfter(volumeTraded, qty) ==
    IF volumeTraded = Big \/ qty = Big THEN Big ELSE volumeTraded + qty

\* mutant of unshiftTrade: the eviction is a shift(), which drops the newest
unshiftTradeShifting(lastTrades, trade) ==
    LET t == <<trade>> \o lastTrades
    IN  IF Len(t) > MaxLastTrades THEN Tail(t) ELSE t

\* lastTrades.unshift(trade); if (length > 10) pop()  (lines 122-129)
unshiftTrade(lastTrades, trade) ==
    LET t == <<trade>> \o lastTrades
    IN  IF Len(t) > MaxLastTrades THEN SubSeq(t, 1, Len(t) - 1) ELSE t

\* mutant of pushHistory: the shift of the oldest entry is forgotten
pushHistoryNoShift(priceHistory, price) == Append(priceHistory, price)

\* mutant of pushHistory: the eviction is a pop(), which drops the new price
pushHistoryPopping(priceHistory, price) ==
    LET h == Append(priceHistory, price)
    IN  IF Len(h) > MaxPriceHistory THEN SubSeq(h, 1, Len(h) - 1) ELSE h

\* priceHistory.push(price); if (length > 100) shift()  (lines 132-133, 215-216)
pushHistory(priceHistory, price) ==
    LET h == Append(priceHistory, price)
    IN  IF Len(h) > MaxPriceHistory THEN Tail(h) ELSE h

\* impactPct of lines 98-106 for a trade on stock
impactPctFor(stock, config, side, qty, tradePrice) ==
    LET direction == IF side = "BUY" THEN 1 ELSE -1
        tradeValue == tradeValueOf(qty, tradePrice)
        liquidityValue == liquidityValueOf(config, stock.price)
    IN  impactPctOf(direction, config, tradeValue, liquidityValue)

\* the stock record after lines 110-133, given the clampedImpact of lines 107-108
stockAfterTrade(stock, side, qty, tradePrice, clampedImpact) ==
    LET direction == IF side = "BUY" THEN 1 ELSE -1
        signedValue == FSigned(direction, tradeValueOf(qty, tradePrice))
        price == ApplyChange(stock.price, clampedImpact)
    IN  [stock EXCEPT
            !.price = price,
            !.high = FMax(stock.high, price),
            !.low = FMin(stock.low, price),
            !.volumeTraded = volumeAfter(stock.volumeTraded, qty),
            !.netFlowValue = FAdd(stock.netFlowValue, signedValue),
            !.lastTrades = unshiftTrade(stock.lastTrades,
                              [side |-> side, qty |-> qty, price |-> tradePrice,
                               timestamp |-> now, resultingPrice |-> price]),
            !.priceHistory = pushHistory(stock.priceHistory, price)]

(***************************************************************************)
(* Drift and mean reversion (lines 149-183)                                *)
(***************************************************************************)
\* the alternating series term - term*r/i + term*r^2/(i(i+1)) - ...
RECURSIVE ExpSeries(_, _, _)
ExpSeries(r, i, term) ==
    IF term = 0 THEN 0
    ELSE term - ExpSeries(r, i + 1, MulDiv(term, r, PctScale) \div i)

\* Math.exp(-x) for x >= 0 in 1/PctScale: x = n*ln2 + r, exp(-r) / 2^n
ExpNeg(x) ==
    LET n == x \div LN2
        r == x % LN2
    IN  IF n > 30 THEN 0 ELSE ExpSeries(r, 1, PctScale) \div (2^n)

\* mutant of decayFactorOf: the decay runs over driftWindowSeconds
decayFactorOfWindow(ageMs) == ExpNeg(MulDiv(LN2, ageMs, 1000 * driftWindowSeconds))

\* Math.exp(-Math.log(2) * sessionAge / driftHalfLife), sessionAge = ageMs / 1000
\* (lines 160-161)
decayFactorOf(ageMs) == ExpNeg(MulDiv(LN2, ageMs, 1000 * driftHalfLife))

\* one pass of the loop body of calculateDriftBias (lines 155-166)
sessionDrift(session, symbol) ==
    LET sentiment == newsSentiment[session][symbol]
        baseDrift == driftTargets[session][sentiment]
        weight == sessionWeights[session]
        decayFactor == decayFactorOf(now - sessionStartTimes[session])
        driftPerSecond == MulDiv(MulDiv(baseDrift, 1, driftWindowSeconds), decayFactor, PctScale)
    IN  MulDiv(weight, driftPerSecond, 100)

\* newsSentiment[session] is undefined for a session outside the table, and
\* reading [symbol] of it throws a TypeError (line 155)
driftThrows == \E i \in 1..Len(activeSessions) : activeSessions[i] \notin DOMAIN newsSentiment

RECURSIVE driftOver(_, _)
driftOver(sessions, symbol) ==
    IF sessions = <<>> THEN 0
    ELSE sessionDrift(Head(sessions), symbol) + driftOver(Tail(sessions), symbol)

\* calculateDriftBias(symbol), when it does not throw
calculateDriftBias(symbol) == driftOver(activeSessions, symbol)

\* mutant of applyMeanReversion: the dampener acts on moves of either sign
applyMeanReversionTwoSided(symbol, drift) ==
    LET stock == state[symbol]
        dayChangePct == FDiv(FAdd(stock.price, -stock.openPrice), stock.openPrice, PctScale)
    IN  IF \/ FLt(dayChangePct, -(2 * (PctScale \div 100))) /\ drift < 0
           \/ FLt(2 * (PctScale \div 100), dayChangePct) /\ drift > 0
        THEN MulDiv(drift, 4, 10)
        ELSE drift

\* applyMeanReversion(symbol, drift): dayChangePct < -0.02 && drift < 0
applyMeanReversion(symbol, drift) ==
    LET stock == state[symbol]
        dayChangePct == FDiv(FAdd(stock.price, -stock.openPrice), stock.openPrice, PctScale)
    IN  IF FLt(dayChangePct, -(2 * (PctScale \div 100))) /\ drift < 0
        THEN MulDiv(drift, 4, 10)
        ELSE drift

(***************************************************************************)
(* tick, per instrument (lines 188-216)                                    *)
(***************************************************************************)
\* Math.max(-maxFlowPct, Math.min(maxFlowPct, netFlowValue / (liquidityValue * flowDivisor)))
\* in 1/PctScale; the division by flowDivisor is folded into the scale to stay in range
clampedFlowOf(config, stock) ==
    LET liquidityValue == liquidityValueOf(config, stock.price)
        flowImpact == FDiv(stock.netFlowValue, liquidityValue, PctScale \div flowDivisor)
    IN  Clamp(maxFlowPct, flowImpact)

\* mutant of noiseOf: the noise is scaled by maxFlowPct instead of noiseRangePct
noiseOfFlowRange(rand) == MulDiv((rand - (PctScale \div 2)) * 2, maxFlowPct, PctScale)

\* (Math.random() - 0.5) * 2 * noiseRangePct, Math.random() = rand / PctScale in [0, 1)
noiseOf(rand) == MulDiv((rand - (PctScale \div 2)) * 2, noiseRangePct, PctScale)

\* the three components tick adds up for one instrument (lines 189-205),
\* with rand drawn by Math.random()
tickTerms(symbol, rand) ==
    [flow |-> clampedFlowOf(stockConfig[symbol], state[symbol]),
     news |-> applyMeanReversion(symbol, calculateDriftBias(symbol)),
     noise |-> noiseOf(rand)]

\* mutant of stockAfterTick: the tick uses up the net flow it has applied
stockAfterTickClearingFlow(stock, terms) ==
    LET priceChange == FAdd(FAdd(terms.flow, terms.news), terms.noise)
        price == ApplyChange(stock.price, priceChange)
    IN  [stock EXCEPT
            !.price = price,
            !.high = FMax(stock.high, price),
            !.low = FMin(stock.low, price),
            !.netFlowValue = 0,
            !.priceHistory = pushHistory(stock.priceHistory, price)]

\* the stock record after lines 207-216, given the components of priceChange
stockAfterTick(stock, terms) ==
    LET priceChange == FAdd(FAdd(terms.flow, terms.news), terms.noise)
        price == ApplyChange(stock.price, priceChange)
    IN  [stock EXCEPT
            !.price = price,
            !.high = FMax(stock.high, price),
            !.low = FMin(stock.low, price),
            !.priceHistory = pushHistory(stock.priceHistory, price)]

(***************************************************************************)
(* The interval timer (lines 220-232)                                      *)
(***************************************************************************)
\* setInterval returns a handle that no live interval has
freshTimer(live) == CHOOSE id \in 1..(Cardinality(live) + 1) : id \notin live

\* mutant of timersAfterStop: the handle is dropped without clearInterval
timersAfterStopNoClear(T) == [tickInterval |-> Null, liveTimers |-> T.liveTimers]

\* stopTickLoop on the pair (tickInterval, liveTimers)
timersAfterStop(T) ==
    IF T.tickInterval # Null
    THEN [tickInterval |-> Null, liveTimers |-> T.liveTimers \ {T.tickInterval}]
    ELSE T

\* mutant of timersAfterStart: the interval already running is not cleared
timersAfterStartNoClear(T) ==
    LET id == freshTimer(T.liveTimers)
    IN  [tickInterval |-> id, liveTimers |-> T.liveTimers \cup {id}]

\* startTickLoop on the pair (tickInterval, liveTimers)
timersAfterStart(T) ==
    LET live == IF T.tickInterval # Null THEN T.liveTimers \ {T.tickInterval}
                ELSE T.liveTimers
        id == freshTimer(live)
    IN  [tickInterval |-> id, liveTimers |-> live \cup {id}]

Timers == [tickInterval |-> tickInterval, liveTimers |-> liveTimers]

(***************************************************************************)
(* Operations                                                              *)
(***************************************************************************)
\* the record init() builds for one instrument (lines 71-80)
initialStock(config) ==
    [price |-> config.startPrice, openPrice |-> config.startPrice,
     high |-> config.startPrice, low |-> config.startPrice,
     volumeTraded |-> 0, netFlowValue |-> 0,
     lastTrades |-> <<>>, priceHistory |-> <<config.startPrice>>]

\* the record reset() builds for one instrument (lines 260-269)
resetStock(config) ==
    [price |-> config.startPrice, openPrice |-> config.startPrice,
     high |-> config.startPrice, low |-> config.startPrice,
     volumeTraded |-> 0, netFlowValue |-> 0,
     lastTrades |-> <<>>, priceHistory |-> <<config.startPrice>>]

\* init() (lines 68-85)
init ==
    /\ state' = [s \in DOMAIN stockConfig |-> initialStock(stockConfig[s])]
    /\ tickInterval' = timersAfterStart(Timers).tickInterval
    /\ liveTimers' = timersAfterStart(Timers).liveTimers
    /\ last' = [op |-> "init", outcome |-> "void"]
    /\ UNCHANGED <<activeSessions, sessionStartTimes, now>>

\* mutant of applyTransaction: the trade's volume is booked on every instrument
applyTransactionOnAll(symbol, side, qty, tradePrice) ==
    LET impactPct == impactPctFor(state[symbol], stockConfig[symbol],
                                  side, qty, tradePrice)
        clampedImpact == clampedImpactOf(impactPct)
        stock == stockAfterTrade(state[symbol], side, qty, tradePrice, clampedImpact)
    IN  /\ state' = [s \in DOMAIN state |->
                        IF s = symbol THEN stock
                        ELSE [state[s] EXCEPT
                                 !.volumeTraded = volumeAfter(@, qty)]]
        /\ last' = [op |-> "addTransaction", outcome |-> "price",
                    symbol |-> symbol, side |-> side, qty |-> qty,
                    tradePrice |-> tradePrice, ret |-> stock.price,
                    raw |-> impactPct, impact |-> clampedImpact]
        /\ UNCHANGED <<activeSessions, sessionStartTimes, tickInterval,
                       liveTimers, now>>

\* addTransaction past its guard: lines 94-137 on a configured symbol
applyTransaction(symbol, side, qty, tradePrice) ==
    LET impactPct == impactPctFor(state[symbol], stockConfig[symbol],
                                  side, qty, tradePrice)
        clampedImpact == clampedImpactOf(impactPct)
        stock == stockAfterTrade(state[symbol], side, qty, tradePrice, clampedImpact)
    IN  /\ state' = [state EXCEPT ![symbol] = stock]
        /\ last' = [op |-> "addTransaction", outcome |-> "price",
                    symbol |-> symbol, side |-> side, qty |-> qty,
                    tradePrice |-> tradePrice, ret |-> stock.price,
                    raw |-> impactPct, impact |-> clampedImpact]
        /\ UNCHANGED <<activeSessions, sessionStartTimes, tickInterval,
                       liveTimers, now>>

\* mutant of addTransaction: the guard's return is missing, so an unknown
\* symbol falls through to stock.price of undefined, which throws
addTransactionNoReturn(symbol, side, qty, tradePrice) ==
    IF symbol \notin DOMAIN state
    THEN /\ last' = [op |-> "addTransaction", outcome |-> "TypeError",
                     symbol |-> symbol]
         /\ UNCHANGED <<state, activeSessions, sessionStartTimes, tickInterval,
                        liveTimers, now>>
    ELSE applyTransaction(symbol, side, qty, tradePrice)

\* addTransaction(symbol, side, qty, tradePrice) (lines 88-138)
addTransaction(symbol, side, qty, tradePrice) ==
    IF symbol \notin DOMAIN state
    THEN /\ last' = [op |-> "addTransaction", outcome |-> "UnknownInstrument",
                     symbol |-> symbol]
         /\ UNCHANGED <<state, activeSessions, sessionStartTimes, tickInterval,
                        liveTimers, now>>
    ELSE applyTransaction(symbol, side, qty, tradePrice)

\* mutant of activateSession: a repeated activation stamps the start time again
activateSessionRestamping(sessionNum) ==
    /\ IF \E i \in 1..Len(activeSessions) : activeSessions[i] = sessionNum
       THEN UNCHANGED activeSessions
       ELSE activeSessions' = Append(activeSessions, sessionNum)
    /\ sessionStartTimes' = (sessionNum :> now) @@ sessionStartTimes
    /\ last' = [op |-> "activateSession", outcome |-> "void", session |-> sessionNum]
    /\ UNCHANGED <<state, tickInterval, liveTimers, now>>

\* activateSession(sessionNum) (lines 141-147)
activateSession(sessionNum) ==
    /\ IF \E i \in 1..Len(activeSessions) : activeSessions[i] = sessionNum
       THEN UNCHANGED <<activeSessions, sessionStartTimes>>
       ELSE /\ activeSessions' = Append(activeSessions, sessionNum)
            /\ sessionStartTimes' = (sessionNum :> now) @@ sessionStartTimes
    /\ last' = [op |-> "activateSession", outcome |-> "void", session |-> sessionNum]
    /\ UNCHANGED <<state, tickInterval, liveTimers, now>>

\* tick() (lines 186-218), run by the host for the live interval timer.
\* calculateDriftBias throws inside the first pass of the loop, before any
\* assignment to the stock, so a throwing tick changes nothing.
tick(timer, rand) ==
    /\ timer \in liveTimers
    /\ IF driftThrows
       THEN /\ last' = [op |-> "tick", outcome |-> "TypeError"]
            /\ UNCHANGED state
       ELSE LET terms == [s \in DOMAIN state |-> tickTerms(s, rand[s])]
            IN  /\ state' = [s \in DOMAIN state |-> stockAfterTick(state[s], terms[s])]
                /\ last' = [op |-> "tick", outcome |-> "void", terms |-> terms]
    /\ UNCHANGED <<activeSessions, sessionStartTimes, tickInterval, liveTimers, now>>

\* startTickLoop() (lines 221-224)
startTickLoop ==
    /\ tickInterval' = timersAfterStart(Timers).tickInterval
    /\ liveTimers' = timersAfterStart(Timers).liveTimers
    /\ last' = [op |-> "startTickLoop", outcome |-> "void"]
    /\ UNCHANGED <<state, activeSessions, sessionStartTimes, now>>

\* stopTickLoop() (lines 227-232)
stopTickLoop ==
    /\ tickInterval' = timersAfterStop(Timers).tickInterval
    /\ liveTimers' = timersAfterStop(Timers).liveTimers
    /\ last' = [op |-> "stopTickLoop", outcome |-> "void"]
    /\ UNCHANGED <<state, activeSessions, sessionStartTimes, now>>

\* mutant of reset: the session registry is not cleared
resetKeepingSessions ==
    /\ state' = [s \in DOMAIN stockConfig |-> resetStock(stockConfig[s])]
    /\ tickInterval' = timersAfterStart(timersAfterStop(Timers)).tickInterval
    /\ liveTimers' = timersAfterStart(timersAfterStop(Timers)).liveTimers
    /\ last' = [op |-> "reset", outcome |-> "void",
                hadSessions |-> activeSessions # <<>>,
                hadTrades |-> \E s \in DOMAIN state : state[s].lastTrades # <<>>,
                hadTimer |-> tickInterval # Null]
    /\ UNCHANGED <<activeSessions, sessionStartTimes, now>>

\* reset() (lines 254-273): stopTickLoop, clear the sessions, rebuild every
\* stock, startTickLoop, in one synchronous call
reset ==
    /\ activeSessions' = <<>>
    /\ sessionStartTimes' = <<>>
    /\ state' = [s \in DOMAIN stockConfig |-> resetStock(stockConfig[s])]
    /\ tickInterval' = timersAfterStart(timersAfterStop(Timers)).tickInterval
    /\ liveTimers' = timersAfterStart(timersAfterStop(Timers)).liveTimers
    /\ last' = [op |-> "reset", outcome |-> "void",
                hadSessions |-> activeSessions # <<>>,
                hadTrades |-> \E s \in DOMAIN state : state[s].lastTrades # <<>>,
                hadTimer |-> tickInterval # Null]
    /\ UNCHANGED now

\* { symbol, ...trade }: a new record, the trade's fields under the symbol (lines 244-247)
taggedTrade(symbol, trade) ==
    [symbol |-> symbol, side |-> trade.side, qty |-> trade.qty, price |-> trade.price,
     timestamp |-> trade.timestamp, resultingPrice |-> trade.resultingPrice]

\* the log the loop of lines 241-249 builds over the instruments of symbols
RECURSIVE flattenTrades(_)
flattenTrades(symbols) ==
    IF symbols = <<>> THEN <<>>
    ELSE LET lastTrades == state[Head(symbols)].lastTrades
         IN  [i \in 1..Len(lastTrades) |-> taggedTrade(Head(symbols), lastTrades[i])]
             \o flattenTrades(Tail(symbols))

\* the comparator of line 250, (a, b) => b.timestamp - a.timestamp, times sign
compareTrades(a, b, sign) == sign * (b.timestamp - a.timestamp)

\* a record inserted into a sorted log: before the first record it compares
\* below, behind the records it compares equal to (Array.prototype.sort is stable)
RECURSIVE insertSorted(_, _, _)
insertSorted(log, record, sign) ==
    IF log = <<>> THEN <<record>>
    ELSE IF compareTrades(record, Head(log), sign) < 0 THEN <<record>> \o log
    ELSE <<Head(log)>> \o insertSorted(Tail(log), record, sign)

RECURSIVE sortedBy(_, _)
sortedBy(log, sign) ==
    IF log = <<>> THEN <<>>
    ELSE insertSorted(sortedBy(SubSeq(log, 1, Len(log) - 1), sign), log[Len(log)], sign)

\* mutant of sortLog: the comparator is a.timestamp - b.timestamp
sortLogAscending(log) == sortedBy(log, -1)

\* log.sort((a, b) => b.timestamp - a.timestamp)  (line 250)
sortLog(log) == sortedBy(log, 1)

\* exportTransactions() (lines 240-251)
exportTransactions ==
    /\ last' = [op |-> "exportTransactions", outcome |-> "log",
                ret |-> sortLog(flattenTrades(entries))]
    /\ UNCHANGED <<state, activeSessions, sessionStartTimes, tickInterval,
                   liveTimers, now>>

\* getState(symbol) (lines 235-237): this.state[symbol] itself, the object the
\* engine updates (ref names it), or undefined for a symbol without one
getState(symbol) ==
    /\ last' = IF symbol \in DOMAIN state
               THEN [op |-> "getState", outcome |-> "object", symbol |-> symbol,
                     ref |-> symbol]
               ELSE [op |-> "getState", outcome |-> "undefined", symbol |-> symbol]
    /\ UNCHANGED <<state, activeSessions, sessionStartTimes, tickInterval,
                   liveTimers, now>>

\* the caller of getState assigns a field of the value it was just handed:
\* the value is the object of this.state, so the assignment lands there
callerAssigns(field, value) ==
    /\ last.op = "getState"
    /\ last.outcome = "object"
    /\ state' = [state EXCEPT ![last.ref] = [@ EXCEPT ![field] = value]]
    /\ last' = [op |-> "callerAssigns", outcome |-> "void", symbol |-> last.ref,
                field |-> field]
    /\ UNCHANGED <<activeSessions, sessionStartTimes, tickInterval, liveTimers, now>>

\* the host clock moves on by d ms
elapse(d) ==
    /\ now' = now + d
    /\ last' = [op |-> "elapse", outcome |-> "void"]
    /\ UNCHANGED <<state, activeSessions, sessionStartTimes, tickInterval, liveTimers>>

(***************************************************************************)
(* Specification: any sequence of at most MaxSteps calls                   *)
(***************************************************************************)
MaxSteps == 3

SymbolInputs == Symbols \cup {"UNKNOWN"}
\* <<side, qty, tradePrice in rupees>>: a small trade, the trade of the spec's
\* TCS scenario, and a pair of trades whose value overflows a double
TradeInputs == {<<"SELL", 1, 260>>, <<"BUY", 5000, 4100>>,
                <<"BUY", Big, Big>>, <<"SELL", Big, Big>>}
SessionInputs == {1, 2, 99}
\* Math.random() in 1/PctScale: its least and its greatest value
RandInputs == {0, PctScale - 1}
ElapseInputs == {1000 * driftHalfLife}
\* drifts handed to applyMeanReversion, in 1/PctScale: session 2's bias of TCS
\* at its start, none, and the opposite
DriftInputs == {-1750, 0, 1750}

\* the state after MarketEngine.init() on the object literal of lines 4-65
Init ==
    /\ state = [s \in DOMAIN stockConfig |-> initialStock(stockConfig[s])]
    /\ activeSessions = <<>>
    /\ sessionStartTimes = <<>>
    /\ tickInterval = 1
    /\ liveTimers = {1}
    /\ now = 0
    /\ last = [op |-> "init", outcome |-> "void"]
    /\ steps = 0
    /\ running = Idle
    /\ accepted = [s \in DOMAIN stockConfig |-> <<>>]

\* the history of accepted trades after the call that last' describes: init()
\* and reset() start it afresh, a trade that addTransaction applied joins it
\* with the price the call returned
acceptedAfter ==
    IF last'.op \in {"init", "reset"}
    THEN [s \in DOMAIN stockConfig |-> <<>>]
    ELSE IF last'.op = "addTransaction" /\ last'.outcome = "price"
    THEN [accepted EXCEPT ![last'.symbol] =
              Append(@, [side |-> last'.side, qty |-> last'.qty,
                         price |-> last'.tradePrice, timestamp |-> now,
                         resultingPrice |-> last'.ret])]
    ELSE accepted

\* one call, run from an empty call stack to its return and counted, while
\* fewer than limit have been made
Call(limit, A) ==
    /\ steps < limit
    /\ steps' = steps + 1
    /\ A
    /\ accepted' = acceptedAfter
    /\ UNCHANGED running

Next ==
    \/ Call(MaxSteps, init)
    \/ \E symbol \in SymbolInputs, t \in TradeInputs :
          Call(MaxSteps, addTransaction(symbol, t[1], t[2], t[3]))
    \/ \E sessionNum \in SessionInputs : Call(MaxSteps, activateSession(sessionNum))
    \/ \E timer \in liveTimers, rand \in [Symbols -> RandInputs] :
          Call(MaxSteps, tick(timer, rand))
    \/ Call(MaxSteps, startTickLoop)
    \/ Call(MaxSteps, stopTickLoop)
    \/ Call(MaxSteps, reset)
    \/ \E d \in ElapseInputs : Call(MaxSteps, elapse(d))

Spec == Init /\ [][Next]_vars

(***************************************************************************)
(* Specification: trading only (trades, ticks, sessions, reset), one call  *)
(* deeper than Spec                                                        *)
(***************************************************************************)
MaxTradingSteps == 4

NextTrading ==
    \/ \E symbol \in Symbols, t \in TradeInputs :
          Call(MaxTradingSteps, addTransaction(symbol, t[1], t[2], t[3]))
    \/ \E timer \in liveTimers, rand \in [Symbols -> RandInputs] :
          Call(MaxTradingSteps, tick(timer, rand))
    \/ \E sessionNum \in {2} : Call(MaxTradingSteps, activateSession(sessionNum))
    \/ Call(MaxTradingSteps, reset)

SpecTrading == Init /\ [][NextTrading]_vars

(***************************************************************************)
(* Specification: long runs that fill the bounded buffers.  Unit trades on *)
(* either instrument, then ticks whose noise alternates between its two    *)
(* extremes.                                                               *)
(***************************************************************************)
MaxLongTrades == 11
MaxLongTicks == 100

\* calls of tick so far in a long run: every other call was a unit trade
longTicks == steps - (state["TCS"].volumeTraded + state["ONGC"].volumeTraded)

longRand == [s \in Symbols |-> IF steps % 2 = 0 THEN 0 ELSE PctScale - 1]

NextLong ==
    \/ \E symbol \in Symbols :
          /\ longTicks = 0
          /\ state[symbol].volumeTraded < MaxLongTrades
          /\ Call(2 * MaxLongTrades,
                  addTransaction(symbol,
                                 IF state[symbol].volumeTraded % 2 = 0 THEN "BUY" ELSE "SELL",
                                 1, 260))
    \/ \E timer \in liveTimers :
          /\ longTicks < MaxLongTicks
          /\ Call(2 * MaxLongTrades + MaxLongTicks, tick(timer, longRand))

SpecLong == Init /\ [][NextLong]_vars

(***************************************************************************)
(* Specification: tick statement by statement, against trades.  tick and   *)
(* addTransaction are synchronous functions (no await and no yield in      *)
(* lines 88-138 and 186-218), and the host that runs the interval of line  *)
(* 223 runs one callback at a time, each to its return.                    *)
(***************************************************************************)
\* mutant of dispatchable: a call is started while tick is on the call stack
dispatchableAlways(r) == TRUE

\* the host starts a call (the interval's callback, a call of the API) only
\* from an empty call stack
dispatchable(r) == r = Idle

\* the interval fires and tick() enters its loop (lines 186-187, 223)
tickEnter(timer) ==
    /\ timer \in liveTimers
    /\ dispatchable(running)
    /\ running' = [pc |-> "compute", todo |-> entries]
    /\ last' = [op |-> "tick", outcome |-> "entered"]
    /\ UNCHANGED <<state, activeSessions, sessionStartTimes, tickInterval,
                   liveTimers, now, accepted>>

\* lines 188-204 for the next instrument of the loop: the components of
\* priceChange, read from the stock as it is now; calculateDriftBias may throw
tickCompute(rand) ==
    /\ running.pc = "compute"
    /\ IF driftThrows
       THEN /\ running' = Idle
            /\ last' = [op |-> "tick", outcome |-> "TypeError"]
       ELSE /\ running' = [pc |-> "apply", todo |-> running.todo,
                           terms |-> tickTerms(Head(running.todo), rand)]
            /\ UNCHANGED last
    /\ UNCHANGED <<state, activeSessions, sessionStartTimes, tickInterval,
                   liveTimers, now, steps, accepted>>

\* lines 207-216 for that instrument, then the next pass of the loop or the return
tickApply ==
    /\ running.pc = "apply"
    /\ state' = [state EXCEPT ![Head(running.todo)] = stockAfterTick(@, running.terms)]
    /\ running' = IF Tail(running.todo) = <<>> THEN Idle
                  ELSE [pc |-> "compute", todo |-> Tail(running.todo)]
    /\ UNCHANGED <<activeSessions, sessionStartTimes, tickInterval, liveTimers,
                   now, last, steps, accepted>>

MaxInterleaveSteps == 3

InterleaveTrades == {<<"SELL", 1, 260>>, <<"BUY", 5000, 4100>>}

NextInterleave ==
    \/ \E timer \in liveTimers :
          steps < MaxInterleaveSteps /\ steps' = steps + 1 /\ tickEnter(timer)
    \/ \E rand \in RandInputs : tickCompute(rand)
    \/ tickApply
    \/ \E symbol \in Symbols, t \in InterleaveTrades :
          /\ dispatchable(running)
          /\ Call(MaxInterleaveSteps, addTransaction(symbol, t[1], t[2], t[3]))
    \/ \E sessionNum \in {2} :
          /\ dispatchable(running)
          /\ Call(MaxInterleaveSteps, activateSession(sessionNum))

SpecInterleave == Init /\ [][NextInterleave]_vars

(***************************************************************************)
(* Specification: the reading half of the API (getState, a caller using    *)
(* what it returned, exportTransactions) among trades at different times   *)
(***************************************************************************)
MaxApiSteps == 4

\* what a caller may assign: <<field, value>>
AssignInputs == {<<"price", 1000 * PriceScale>>}

NextApi ==
    \/ \E symbol \in Symbols, t \in InterleaveTrades :
          Call(MaxApiSteps, addTransaction(symbol, t[1], t[2], t[3]))
    \/ \E d \in ElapseInputs : Call(MaxApiSteps, elapse(d))
    \/ Call(MaxApiSteps, exportTransactions)
    \/ \E symbol \in SymbolInputs : Call(MaxApiSteps, getState(symbol))
    \/ \E a \in AssignInputs : Call(MaxApiSteps, callerAssigns(a[1], a[2]))
    \/ Call(MaxApiSteps, reset)

SpecApi == Init /\ [][NextApi]_vars

(***************************************************************************)
(* Specification: runs of trades long enough to evict from lastTrades,     *)
(* with other calls (tick, activateSession, reset) anywhere among them.    *)
(* The n-th trade on an instrument since the last reset is for n shares,   *)
(* a BUY when n is odd.                                                    *)
(***************************************************************************)
MaxFlowTrades == 11
MaxFlowOthers == 1

\* trades accepted since the last init() or reset(), over all instruments
flowTrades == Len(accepted["ONGC"]) + Len(accepted["TCS"])

NextFlow ==
    \/ \E symbol \in Symbols :
          /\ flowTrades < MaxFlowTrades
          /\ Call(2 * MaxFlowTrades + MaxFlowOthers,
                  addTransaction(symbol,
                                 IF Len(accepted[symbol]) % 2 = 0 THEN "BUY" ELSE "SELL",
                                 Len(accepted[symbol]) + 1, 260))
    \/ \E timer \in liveTimers :
          /\ steps - flowTrades < MaxFlowOthers
          /\ Call(2 * MaxFlowTrades + MaxFlowOthers, tick(timer, longRand))
    \/ \E sessionNum \in {2} :
          /\ steps - flowTrades < MaxFlowOthers
          /\ Call(2 * MaxFlowTrades + MaxFlowOthers, activateSession(sessionNum))
    \/ /\ steps - flowTrades < MaxFlowOthers
       /\ Call(2 * MaxFlowTrades + MaxFlowOthers, reset)

SpecFlow == Init /\ [][NextFlow]_vars

(***************************************************************************)
(* Properties                                                              *)
(***************************************************************************)
\* a step that is a call of op (steps counts calls, so stuttering is excluded)
IsCall(op) == steps' # steps /\ last'.op = op

FreshState == [s \in DOMAIN stockConfig |-> initialStock(stockConfig[s])]

\* C1: in every reachable state, every instrument has low <= price <= high.
\* Violated by the code: a trade value that overflows to Infinity, bought and
\* then sold, leaves netFlowValue = NaN, and the next tick makes price, high
\* and low NaN.
C1_LowPriceHigh ==
    \A s \in DOMAIN state :
        FLe(state[s].low, state[s].price) /\ FLe(state[s].price, state[s].high)

\* C2: in every reachable state, lastTrades holds at most 10 entries and
\* priceHistory at most 100, however many trades and ticks there were.
C2_BuffersBounded ==
    \A s \in DOMAIN state :
        /\ Len(state[s].lastTrades) <= MaxLastTrades
        /\ Len(state[s].priceHistory) <= MaxPriceHistory

\* C2 witness: more than 10 trades and more than 100 price updates were made
\* on TCS, and both of its buffers are full.
C2_Witness ==
    /\ state["TCS"].volumeTraded > MaxLastTrades
    /\ state["TCS"].volumeTraded + longTicks >= MaxPriceHistory
    /\ Len(state["TCS"].lastTrades) = MaxLastTrades
    /\ Len(state["TCS"].priceHistory) = MaxPriceHistory

C4_ImpactClamped ==
    [][(IsCall("addTransaction") /\ last'.symbol \in DOMAIN stockConfig)
          => LET s == last'.symbol
                 prior == state[s].price
                 raw == last'.raw
                 applied == last'.impact
             IN  /\ FLe(-perTradeImpactClamp, applied)
                 /\ FLe(applied, perTradeImpactClamp)
                 /\ FLt(perTradeImpactClamp, raw) => applied = perTradeImpactClamp
                 /\ FLt(raw, -perTradeImpactClamp) => applied = -perTradeImpactClamp
                 /\ (FLe(-perTradeImpactClamp, raw) /\ FLe(raw, perTradeImpactClamp))
                       => applied = raw
                 /\ state'[s].price = ApplyChange(prior, applied)
                 /\ FLe(ApplyChange(prior, -perTradeImpactClamp), state'[s].price)
                 /\ FLe(state'[s].price, ApplyChange(prior, perTradeImpactClamp))
                 /\ (s = "TCS" /\ state[s] = FreshState[s] /\ last'.side = "BUY"
                       /\ last'.qty = 5000 /\ last'.tradePrice = 4100)
                       => state'[s].price = 42025000]_vars

\* C5: after reset() every instrument equals its freshly initialized record
\* and activeSessions and sessionStartTimes are empty.
C5_ResetRestoresFreshState ==
    last.op = "reset" =>
        /\ \A s \in DOMAIN stockConfig :
              /\ s \in DOMAIN state
              /\ state[s].price = stockConfig[s].startPrice
              /\ state[s].openPrice = stockConfig[s].startPrice
              /\ state[s].high = stockConfig[s].startPrice
              /\ state[s].low = stockConfig[s].startPrice
              /\ state[s].volumeTraded = 0
              /\ state[s].netFlowValue = 0
              /\ state[s].lastTrades = <<>>
              /\ state[s].priceHistory = <<stockConfig[s].startPrice>>
        /\ activeSessions = <<>>
        /\ DOMAIN sessionStartTimes = {}

\* C5 witness: reset() has returned from a state that had trades recorded and
\* a session active.
C5_Witness == last.op = "reset" /\ last.hadSessions /\ last.hadTrades

\* occurrences of session in a sequence of sessions
Occurrences(sessions, session) ==
    Cardinality({i \in 1..Len(sessions) : sessions[i] = session})

\* C6: the first activateSession(s) appends s once and records
\* sessionStartTimes[s] = now; a later activateSession(s) changes neither; and
\* no call other than reset removes a session or changes its start time.
C6_ActivateSessionIdempotent ==
    [][/\ IsCall("activateSession")
          => LET s == last'.session
             IN  /\ Occurrences(activeSessions', s) = 1
                 /\ Occurrences(activeSessions, s) = 0
                       => /\ activeSessions' = Append(activeSessions, s)
                          /\ sessionStartTimes'[s] = now
                 /\ Occurrences(activeSessions, s) > 0
                       => UNCHANGED <<activeSessions, sessionStartTimes>>
       /\ ~IsCall("reset")
          => \A s \in DOMAIN sessionStartTimes :
                /\ s \in DOMAIN sessionStartTimes'
                /\ sessionStartTimes'[s] = sessionStartTimes[s]
                /\ Occurrences(activeSessions', s) = Occurrences(activeSessions, s)
                /\ Occurrences(activeSessions, s) = 1]_vars

\* C6 witness: activateSession(s) has just been called for a session that was
\* activated at an earlier time.
C6_Witness ==
    /\ last.op = "activateSession"
    /\ last.session \in DOMAIN sessionStartTimes
    /\ sessionStartTimes[last.session] < now

\* C7: stopTickLoop() leaves the engine with no interval (tickInterval null),
\* and while tickInterval is null no tick() runs.
C7_NoTickAfterStop ==
    [][/\ IsCall("stopTickLoop") => tickInterval' = Null
       /\ tickInterval = Null => ~IsCall("tick")]_vars

\* C7 witness: the loop is stopped and time has passed since.
C7_Witness == tickInterval = Null /\ last.op = "elapse"

\* C8: in every tick and for every instrument the flow component lies in
\* [-maxFlowPct, maxFlowPct] and the noise in [-noiseRangePct, noiseRangePct].
\* Violated by the code when netFlowValue is NaN (see C1): the flow is NaN.
C8_TickTermsBounded ==
    (last.op = "tick" /\ last.outcome = "void") =>
        \A s \in DOMAIN last.terms :
            /\ FLe(-maxFlowPct, last.terms[s].flow)
            /\ FLe(last.terms[s].flow, maxFlowPct)
            /\ FLe(-noiseRangePct, last.terms[s].noise)
            /\ FLe(last.terms[s].noise, noiseRangePct)

\* C9: a tick with no active session changes the price of an instrument whose
\* netFlowValue is 0 by the noise only: flow and news components are 0 and the
\* new price lies within prior price x [1 - noiseRangePct, 1 + noiseRangePct].
C9_QuietTickIsNoiseOnly ==
    [][(IsCall("tick") /\ activeSessions = <<>>)
          => \A s \in DOMAIN state :
                state[s].netFlowValue = 0
                   => /\ last'.outcome = "void"
                      /\ last'.terms[s].flow = 0
                      /\ last'.terms[s].news = 0
                      /\ state'[s].price = ApplyChange(state[s].price, last'.terms[s].noise)
                      /\ ApplyChange(state[s].price, -noiseRangePct) <= state'[s].price
                      /\ state'[s].price <= ApplyChange(state[s].price, noiseRangePct)]_vars

\* C9 witness: a tick has run with no session active on an instrument with
\* zero net flow, and has moved its price.
C9_Witness ==
    /\ last.op = "tick"
    /\ last.outcome = "void"
    /\ activeSessions = <<>>
    /\ \E s \in DOMAIN state :
          /\ state[s].netFlowValue = 0
          /\ state[s].price # state[s].openPrice

\* C10: whatever calls were made before, a tick completes and updates every
\* instrument, and an addTransaction on a configured instrument returns a price.
\* Violated by the code: after activateSession of a session that is not in
\* newsSentiment, every tick throws a TypeError and updates nothing.
C10_EngineStaysUsable ==
    /\ last.op = "tick" => last.outcome = "void"
    /\ (last.op = "addTransaction" /\ last.symbol \in DOMAIN stockConfig)
          => last.outcome = "price"

\* C11: under any interleaving of addTransaction calls and timer-driven ticks
\* each is atomic for its instrument.  A trade never runs between a tick's
\* reading of its instrument (lines 188-204) and the tick's writing of it
\* (lines 207-216), so it sees the instrument fully before or fully after the
\* tick; and what a tick writes is computed from the values the instrument
\* holds when it is written, so no trade's update to price or netFlowValue is
\* lost by it.
C11_PerInstrumentAtomic ==
    [][/\ (IsCall("addTransaction") /\ last'.outcome = "price")
            => ~(running.pc = "apply" /\ Head(running.todo) = last'.symbol)
       /\ (running.pc = "apply" /\ running' # running /\ state' # state)
            => /\ running.terms.flow =
                      clampedFlowOf(stockConfig[Head(running.todo)],
                                    state[Head(running.todo)])
               /\ running.terms.news =
                      applyMeanReversion(Head(running.todo),
                                         calculateDriftBias(Head(running.todo)))]_vars

\* a trade and then a whole tick have acted on ONGC, and a trade on TCS after it
C11_Witness ==
    /\ running = Idle
    /\ Len(accepted["ONGC"]) = 1
    /\ Len(state["ONGC"].priceHistory) = 3
    /\ state["ONGC"].priceHistory[3] # state["ONGC"].priceHistory[2]
    /\ Len(accepted["TCS"]) = 1
    /\ Len(state["TCS"].priceHistory) = 3
    /\ state["TCS"].lastTrades[1].resultingPrice = state["TCS"].price

\* how often record occurs in log
LogCount(log, record) == Cardinality({i \in 1..Len(log) : log[i] = record})

\* how often record is a trade of the lastTrades buffer of its symbol, tagged
HeldCount(record) ==
    IF record.symbol \notin DOMAIN state THEN 0
    ELSE Cardinality({i \in 1..Len(state[record.symbol].lastTrades) :
                         taggedTrade(record.symbol, state[record.symbol].lastTrades[i]) = record})

RECURSIVE HeldTotal(_)
HeldTotal(symbols) ==
    IF symbols = {} THEN 0
    ELSE LET s == CHOOSE x \in symbols : TRUE
         IN  Len(state[s].lastTrades) + HeldTotal(symbols \ {s})

\* C12: exportTransactions returns exactly the trades held in the lastTrades
\* buffers of all instruments (as many records as the buffers hold, each as
\* often as it is held), each with its symbol, in order of non-increasing
\* timestamp, and it changes no engine state.
C12_ExportIsSortedLog ==
    [][IsCall("exportTransactions")
         => /\ Len(last'.ret) = HeldTotal(DOMAIN state)
            /\ \A i \in 1..Len(last'.ret) :
                  LogCount(last'.ret, last'.ret[i]) = HeldCount(last'.ret[i])
            /\ \A i, j \in 1..Len(last'.ret) :
                  i < j => last'.ret[i].timestamp >= last'.ret[j].timestamp
            /\ UNCHANGED <<state, activeSessions, sessionStartTimes,
                           tickInterval, liveTimers>>]_vars

\* an export of trades on both instruments, where the instrument that comes
\* first in the table holds the older trade, so that the sort reorders
C12_Witness ==
    /\ last.op = "exportTransactions"
    /\ Len(last.ret) = 2
    /\ last.ret[1].symbol = "TCS"
    /\ last.ret[2].symbol = "ONGC"
    /\ last.ret[1].timestamp > last.ret[2].timestamp

\* the drift bias of symbol under session alone at the session's start time:
\* weight * (baseDrift / driftWindowSeconds), the decay factor being 1
BiasAtStart(session, symbol) ==
    MulDiv(sessionWeights[session],
           MulDiv(driftTargets[session][newsSentiment[session][symbol]], 1,
                  driftWindowSeconds),
           100)

\* C13: with a single active session the drift bias of an instrument k
\* half-lives (k * 1200 s) after the session's start time is the bias at the
\* start time halved k times: 2^k times the bias is the bias at the start, up
\* to the two roundings of the fixed point (less than one unit of 1/PctScale
\* each, scaled by 2^k).
C13_DriftHalvesPerHalfLife ==
    \A symbol \in Symbols, k \in 0..MaxSteps :
       (/\ Len(activeSessions) = 1
        /\ activeSessions[1] \in DOMAIN newsSentiment
        /\ now - sessionStartTimes[activeSessions[1]] = k * 1000 * driftHalfLife)
       => Abs((2^k) * calculateDriftBias(symbol)
              - BiasAtStart(activeSessions[1], symbol)) <= 2^(k + 1)

\* session 2 alone, two half-lives old, no trade made: the bias of TCS is a
\* quarter of what it was
C13_Witness ==
    /\ activeSessions = <<2>>
    /\ now - sessionStartTimes[2] = 2 * 1000 * driftHalfLife
    /\ \A s \in Symbols : accepted[s] = <<>>
    /\ BiasAtStart(2, "TCS") = -1750
    /\ calculateDriftBias("TCS") \in {-438, -437}

\* C14: getState(symbol) returns a read-only view: neither the call nor what
\* the caller does with the value it returned (here: assigning a field of it)
\* changes the engine's state of any instrument.
C14_GetStateIsReadOnly ==
    [][(IsCall("getState") \/ IsCall("callerAssigns")) => state' = state]_vars

\* the signed sum of direction * qty * tradePrice over trades, oldest first,
\* in the double arithmetic of the engine
RECURSIVE SignedSum(_)
SignedSum(trades) ==
    IF trades = <<>> THEN 0
    ELSE LET trade == trades[Len(trades)]
         IN  FAdd(SignedSum(SubSeq(trades, 1, Len(trades) - 1)),
                  FSigned(IF trade.side = "BUY" THEN 1 ELSE -1,
                          tradeValueOf(trade.qty, trade.price)))

\* C15: the netFlowValue of every instrument is the signed sum of
\* direction * qty * tradePrice over all trades accepted on it since the last
\* init() or reset(), those already evicted from lastTrades included (the same
\* double, a NaN sum being a NaN value); a call of tick or activateSession
\* leaves it as it is, and the sum starts again from 0 only with reset() (and
\* init()).
C15_NetFlowIsSignedSum ==
    /\ [](\A s \in Symbols : state[s].netFlowValue = SignedSum(accepted[s]))
    /\ [][/\ (IsCall("tick") \/ IsCall("activateSession"))
               => \A s \in Symbols : state'[s].netFlowValue = state[s].netFlowValue
          /\ \A s \in Symbols :
               (accepted[s] # <<>> /\ accepted'[s] = <<>>)
                   => (IsCall("reset") \/ IsCall("init"))]_vars

\* eleven trades on ONGC, the first evicted from lastTrades and still in the
\* sum, with a tick or an activation among them
C15_Witness ==
    /\ Len(accepted["ONGC"]) = 11
    /\ Len(state["ONGC"].lastTrades) = 10
    /\ state["ONGC"].netFlowValue = 6 * 260
    /\ steps = 12
    /\ last.op = "addTransaction"

\* C16: a call of addTransaction(symbol, ...) that applies the trade changes
\* the state of that instrument only: the record (price, high, low,
\* volumeTraded, netFlowValue, lastTrades, priceHistory) of every other
\* instrument and the session registry are as before.
C16_TradeTouchesOneInstrument ==
    [][(IsCall("addTransaction") /\ last'.outcome = "price")
         => /\ \A s \in DOMAIN state \ {last'.symbol} : state'[s] = state[s]
            /\ activeSessions' = activeSessions
            /\ sessionStartTimes' = sessionStartTimes]_vars

\* a trade on TCS has been applied while ONGC held a trade of its own and a
\* session was active
C16_Witness ==
    /\ last.op = "addTransaction"
    /\ last.outcome = "price"
    /\ last.symbol = "TCS"
    /\ Len(state["TCS"].lastTrades) = 1
    /\ Len(state["ONGC"].lastTrades) = 1
    /\ activeSessions # <<>>

\* C17: after n accepted trades on an instrument since the last init() or
\* reset(), lastTrades holds the min(n, 10) most recent of them, newest first
\* (the i-th entry is the i-th newest trade; older ones are evicted from the
\* back), and the resultingPrice of each is the price the instrument had
\* right after that trade was applied.
C17_LastTradesAreNewestTen ==
    \A s \in Symbols :
       LET n == Len(accepted[s])
           lastTrades == state[s].lastTrades
       IN  /\ Len(lastTrades) = (IF n < MaxLastTrades THEN n ELSE MaxLastTrades)
           /\ \A i \in 1..Len(lastTrades) : lastTrades[i] = accepted[s][n - i + 1]

\* eleven trades on ONGC and a tick after the last: the buffer's back is the
\* second trade, its front the eleventh with the price that trade left, which
\* the tick has since moved
C17_Witness ==
    /\ Len(accepted["ONGC"]) = 11
    /\ state["ONGC"].lastTrades[10].qty = 2
    /\ state["ONGC"].lastTrades[1].qty = 11
    /\ state["ONGC"].lastTrades[1].resultingPrice = accepted["ONGC"][11].resultingPrice
    /\ state["ONGC"].lastTrades[1].resultingPrice # state["ONGC"].price

\* the price of symbol is more than 2% below its openPrice
DownMoreThanTwoPct(symbol) ==
    FLt(state[symbol].price, MulDiv(state[symbol].openPrice, 98, 100))

\* C18: in every reachable state applyMeanReversion(symbol, drift) is
\* 0.4 * drift exactly when the price is more than 2% below openPrice and
\* drift < 0, and drift itself in every other case (drift >= 0, a price not
\* more than 2% down, any move up); and openPrice is the configured startPrice.
C18_DampenerIsOneSided ==
    \A symbol \in Symbols :
       /\ \A drift \in DriftInputs :
             applyMeanReversion(symbol, drift) =
                 (IF DownMoreThanTwoPct(symbol) /\ drift < 0
                  THEN MulDiv(drift, 4, 10)
                  ELSE drift)
       /\ state[symbol].openPrice = stockConfig[symbol].startPrice

\* TCS is 2.5% down after a large sale, session 2 pulls it further down, and
\* the tick has applied 0.4 of that bias
C18_Witness ==
    /\ last.op = "tick"
    /\ last.outcome = "void"
    /\ DownMoreThanTwoPct("TCS")
    /\ calculateDriftBias("TCS") = -1750
    /\ last.terms["TCS"].news = -700

\* C19: whatever calls of init, reset, startTickLoop and stopTickLoop were
\* made (among the other calls), at most one interval timer is live, and
\* right after init() or reset() exactly one is, the one tickInterval holds,
\* also when the loop was stopped before the call.
C19_OneTimerLive ==
    /\ Cardinality(liveTimers) <= 1
    /\ last.op \in {"init", "reset"}
          => (Cardinality(liveTimers) = 1 /\ tickInterval \in liveTimers)

\* reset() was called while the loop was stopped, and one timer is live again
C19_Witness ==
    /\ last.op = "reset"
    /\ ~last.hadTimer
    /\ Cardinality(liveTimers) = 1

\* C20: the priceHistory of every instrument is never empty and ends in the
\* instrument's current price (the value last stored as the price), and it is
\* kept oldest first: a step that changes an instrument either starts the
\* history afresh with the start price (init, reset) or appends the new price
\* behind the entries there were, dropping the first of them once there are
\* more than 100.
C20_HistoryEndsInPrice ==
    /\ [](\A s \in Symbols :
            /\ Len(state[s].priceHistory) >= 1
            /\ state[s].priceHistory[Len(state[s].priceHistory)] = state[s].price)
    /\ [][\A s \in Symbols :
            \/ state'[s] = state[s]
            \/ /\ IsCall("init") \/ IsCall("reset")
               /\ state'[s].priceHistory = <<stockConfig[s].startPrice>>
            \/ LET h == Append(state[s].priceHistory, state'[s].price)
               IN  state'[s].priceHistory =
                      (IF Len(h) > MaxPriceHistory THEN SubSeq(h, 2, Len(h)) ELSE h)]_vars

\* a full history whose first entry is no longer the start price: the oldest
\* entries were dropped and the newest is the price
C20_Witness ==
    /\ Len(state["ONGC"].priceHistory) = MaxPriceHistory
    /\ state["ONGC"].priceHistory[1] # stockConfig["ONGC"].startPrice
    /\ state["ONGC"].priceHistory[MaxPriceHistory] = state["ONGC"].price
    /\ state["ONGC"].priceHistory[MaxPriceHistory - 1] # state["ONGC"].price
    /\ last.op = "tick"

=============================================================================
